---- MODULE Spec2Model ----
(***************************************************************************)
(* SkyForge (YOLO synthetic dataset generator): the App component's state, *)
(* its handlers generateDataset / handleDownloadZip / toggleAngle /        *)
(* handleImageUpload, and the helpers of utils/yoloUtils.                  *)
(*                                                                         *)
(* generateDataset is an async function: it runs synchronously from one    *)
(* await to the next.  pc is its position; the positions named after an    *)
(* awaited call ("generateDroneView", "resizeImage", "detectObjectBBox")   *)
(* are the suspension points, where the UI handlers can run.               *)
(*                                                                         *)
(* Numbers: a JS number x is represented by the integer x * Den, so that   *)
(* the divisions by 1000 and by 2 of convertGeminiBoxToYolo are exact on   *)
(* the inputs drawn here (integers and quarters).                          *)
(***************************************************************************)
EXTENDS Integers, Sequences, FiniteSets, TLC

VARIABLES
    apiKey,          \* App.tsx:12   useState(process.env.API_KEY || '')
    referenceImg,    \* App.tsx:13
    selectedAngles,  \* App.tsx:21   array of angle strings
    isProcessing,    \* App.tsx:16
    generatedItems,  \* App.tsx:17   array of GeneratedData
    progress,        \* App.tsx:18   null | {current, total}
    pc,              \* position of the generateDataset activation
    run,             \* the activation's closure and locals
    calls,           \* external-service calls made by the current run
    effect,          \* what the last step did towards the outside
    fnArgs,          \* argument of a pure helper under test
    fnResult         \* its result

vars == <<apiKey, referenceImg, selectedAngles, isProcessing, generatedItems,
          progress, pc, run, calls, effect, fnArgs, fnResult>>

appVars == <<apiKey, referenceImg, selectedAngles, isProcessing, generatedItems,
             progress, pc, run, calls, effect>>

-----------------------------------------------------------------------------
(* Bounds of the exploration *)

MaxCount == 2        \* config.count ranges over 1..MaxCount
RandDen == 2         \* Math.random() ranges over k / RandDen, k < RandDen
MaxTick == 1         \* Date.now() ranges over 1..MaxTick
MaxQuarter == 5      \* box fields on the 0-1 scale: -1/4 .. MaxQuarter/4
MaxDim == 8          \* pixel widths and heights: 100, 200 .. 100 * MaxDim

-----------------------------------------------------------------------------
(* types.ts *)

LightingCondition ==
    << "Sunny, harsh shadows", "Overcast, soft lighting",
       "Sunset, golden hour", "Night, artificial street lighting" >>

WeatherCondition ==
    << "Clear, high visibility",
       "Foggy, heavy smog, atmospheric haze, low visibility",
       "Dusty, sandstorm, particulate matter in air, yellow tint",
       "Rainy, wet surfaces, puddles, falling droplets",
       "Cloudy, overcast sky" >>

BackgroundType ==
    << "Urban street, asphalt",
       "Construction site, cranes, raw materials, dirt, unfinished structures",
       "Green grass field", "Dirt ground, dry earth", "Concrete pavement",
       "Snowy ground", "Sandy desert" >>

ALTITUDE_OPTIONS ==
    << "Low (10m)", "Medium (30m)", "High (50m)", "Very High (100m)" >>

ANGLE_OPTIONS ==
    << "Top-down (90)", "Steep (75)", "High Angle (60)",
       "Standard (45)", "Low Angle (30)", "Grazing (15)" >>

Range(s) == { s[k] : k \in DOMAIN s }

-----------------------------------------------------------------------------
(* Values *)

Null == "null"
Undefined == <<>>            \* an optional field that is absent
Some(v) == <<v>>             \* an optional field that is present

Den == 2 * 4 * 1000          \* JS number x  <->  integer x * Den
Num(n) == n * Den            \* the integer n as a JS number
Quarter(q) == q * (Den \div 4)

EmptyUrl == [w |-> 0, h |-> 0, decodable |-> FALSE]   \* imageUrl: ''

-----------------------------------------------------------------------------
(* utils/yoloUtils *)

Min(a, b) == IF a < b THEN a ELSE b
Max(a, b) == IF a > b THEN a ELSE b
Abs(a) == IF a < 0 THEN 0 - a ELSE a

\* The scale chosen from any field exceeding 1.
BoxScaleAnyField(box) ==
    IF box.ymax > Num(1) \/ box.xmax > Num(1) \/ box.ymin > Num(1) \/ box.xmin > Num(1)
    THEN 1000 ELSE 1

\* const scale = box.ymax > 1 ? 1000 : 1
BoxScale(box) == IF box.ymax > Num(1) THEN 1000 ELSE 1

\* The clamp with its upper limit only.
ClampUpper(v) == Min(Num(1), v)

\* Math.max(0, Math.min(1, v))
Clamp01(v) == Max(0, Min(Num(1), v))

\* Lines 9-19: the locals before the clamp
BoxLocals(box) ==
    LET scale == BoxScale(box)
        ymin == box.ymin \div scale
        xmin == box.xmin \div scale
        ymax == box.ymax \div scale
        xmax == box.xmax \div scale
        boxWidth == xmax - xmin
        boxHeight == ymax - ymin
    IN  [ ymin |-> ymin, xmin |-> xmin, ymax |-> ymax, xmax |-> xmax,
          boxWidth |-> boxWidth, boxHeight |-> boxHeight,
          xCenter |-> xmin + (boxWidth \div 2),
          yCenter |-> ymin + (boxHeight \div 2) ]

convertGeminiBoxToYolo(box, imgWidth, imgHeight) ==
    LET l == BoxLocals(box)
    IN  [ x_center |-> Clamp01(l.xCenter),
          y_center |-> Clamp01(l.yCenter),
          width    |-> Clamp01(l.boxWidth),
          height   |-> Clamp01(l.boxHeight) ]

\* resizeImage(base64Str, targetWidth, targetHeight): the value the promise
\* resolves with once img.onload has fired; ctx is canvas.getContext('2d').
\* No onerror handler is installed: for an image that does not decode the
\* promise never settles (see ResizeImageReturn).
resizeImage(base64Str, targetWidth, targetHeight, ctx) ==
    IF ctx
    THEN [w |-> targetWidth, h |-> targetHeight, decodable |-> TRUE]
    ELSE base64Str

\* The ratio table; value is the table's number * 10000.
AspectRatios ==
    << [key |-> "1:1",  value |-> 10000],
       [key |-> "3:4",  value |-> 7500],
       [key |-> "4:3",  value |-> 13330],
       [key |-> "9:16", value |-> 5625],
       [key |-> "16:9", value |-> 17770] >>

\* |value - width/height|, scaled by 10000 * height
RatioDiff(r, width, height) == Abs(r.value * height - 10000 * width)

RECURSIVE ReduceRatio(_, _, _, _)
ReduceRatio(prev, k, width, height) ==
    IF k > Len(AspectRatios) THEN prev
    ELSE LET curr == AspectRatios[k]
         IN  ReduceRatio(IF RatioDiff(curr, width, height)
                            < RatioDiff(prev, width, height)
                         THEN curr ELSE prev,
                         k + 1, width, height)

getGeminiAspectRatio(width, height) ==
    ReduceRatio(AspectRatios[1], 2, width, height).key

-----------------------------------------------------------------------------
(* services/geminiService: what each call does with the service's answer *)

ApiKeyMissing == "API Key is missing"
NoImageData == "No image data returned from model."
NoTextResponse == "No text response for detection"
SdkError == "ApiError: request failed"

Ok(v) == [ok |-> TRUE, value |-> Some(v), message |-> ""]
Throw(m) == [ok |-> FALSE, value |-> Undefined, message |-> m]

\* What ai.models.generateContent can do in generateDroneView: answer with
\* an image part, answer with none, or throw.
RawImages ==
    { [w |-> 1024, h |-> 1024, decodable |-> d] : d \in BOOLEAN }

SynthResponses ==
    { [kind |-> "image", image |-> Some(img)] : img \in RawImages }
    \cup { [kind |-> "noimage", image |-> Undefined],
           [kind |-> "throw", image |-> Undefined] }

generateDroneView(key, resp) ==
    IF key = "" THEN Throw(ApiKeyMissing)
    ELSE IF resp.kind = "throw" THEN Throw(SdkError)
    ELSE IF resp.kind = "image" THEN Ok(resp.image[1])
    ELSE Throw(NoImageData)

\* The Box2D values the service answers with (responseSchema: four required
\* integers; the prompt asks for the 0-1000 scale, the service sometimes
\* answers on the 0-1 scale, and nothing keeps its answer within the image
\* or ymin below ymax).  The second box is on the 0-1 scale, inverted in y
\* and out of range in x.
DetectedBoxes ==
    { [ymin |-> Num(100), xmin |-> Num(200), ymax |-> Num(500), xmax |-> Num(600)],
      [ymin |-> Num(1), xmin |-> Num(0 - 1), ymax |-> Num(0), xmax |-> Num(1)] }

DetectResponses ==
    { [kind |-> "json", box |-> Some(b)] : b \in DetectedBoxes }
    \cup { [kind |-> k, box |-> Undefined] : k \in {"notext", "throw"} }

detectObjectBBox(key, resp) ==
    IF key = "" THEN Throw(ApiKeyMissing)
    ELSE IF resp.kind = "throw" THEN Throw(SdkError)
    ELSE IF resp.kind = "notext" THEN Throw(NoTextResponse)
    ELSE Ok(resp.box[1])

\* toFixed(6) of a number >= 0: round to micro-units, then print
\* <integer part>.<six digits>.  micro is round(v * 10^6 / Den), with the
\* fraction reduced by 1000 to stay within 32-bit integers.
Digits == << "0", "1", "2", "3", "4", "5", "6", "7", "8", "9" >>

RECURSIVE NatToString(_)
NatToString(n) ==
    IF n < 10 THEN Digits[n + 1]
    ELSE NatToString(n \div 10) \o Digits[(n % 10) + 1]

\* The digits as they are, without leading zeros.
NoPad(str, n) == str

RECURSIVE PadLeft(_, _)
PadLeft(str, n) == IF Len(str) >= n THEN str ELSE PadLeft("0" \o str, n)

toFixed6(v) ==
    LET micro == (v * 1000 + (Den \div 2000)) \div (Den \div 1000)
    IN  NatToString(micro \div 1000000) \o "."
          \o PadLeft(NatToString(micro % 1000000), 6)

formatYoloLine(classId, bbox) ==
    NatToString(classId) \o " " \o toFixed6(bbox.x_center) \o " "
      \o toFixed6(bbox.y_center) \o " " \o toFixed6(bbox.width) \o " "
      \o toFixed6(bbox.height)

-----------------------------------------------------------------------------
(* App.tsx: state after construction *)

RefImage == "data:image/png;base64,REF"

\* Math.random() is k / RandDen; sample(arr) = arr[Math.floor(random * length)]
Randoms == 0 .. (RandDen - 1)
sample(arr, k) == arr[((k * Len(arr)) \div RandDen) + 1]

InitialConfig ==
    [ count |-> 3, width |-> 640, height |-> 640, lighting |-> "Random",
      background |-> "Random", altitude |-> "Random", angle |-> "Random",
      weather |-> "Random" ]

NoRun ==
    [ config |-> InitialConfig, referenceImg |-> Null, selectedAngles |-> <<>>,
      aspectRatio |-> "1:1", i |-> 0, id |-> [t |-> 0, i |-> 0],
      itemConfig |-> InitialConfig,
      rawDroneImage |-> EmptyUrl, resizedImage |-> EmptyUrl ]

\* effect: an early return of generateDataset or handleDownloadZip, the
\* start of a run, or the archive handed to saveAs; NoEffect after any
\* other step.
NoEffect == [handler |-> "none", kind |-> "none", files |-> Undefined]
Return(handler) == [handler |-> handler, kind |-> "return", files |-> Undefined]
Started(handler) == [handler |-> handler, kind |-> "started", files |-> Undefined]
SaveAs(handler, files) == [handler |-> handler, kind |-> "saveAs", files |-> Some(files)]

NoArgs == [ymin |-> 0, xmin |-> 0, ymax |-> 0, xmax |-> 0, w |-> 0, h |-> 0]

Init ==
    /\ apiKey \in {"", "KEY"}
    /\ referenceImg = Null
    /\ selectedAngles = << "Standard (45)" >>
    /\ isProcessing = FALSE
    /\ generatedItems = <<>>
    /\ progress = Undefined
    /\ pc = "idle"
    /\ run = NoRun
    /\ calls = <<>>
    /\ effect = NoEffect
    /\ fnArgs = NoArgs
    /\ fnResult = Undefined

\* The activation of generateDataset is suspended on an await, or there is
\* none: only then can an event handler run.
Suspended == pc \in {"idle", "generateDroneView", "resizeImage", "detectObjectBBox"}

-----------------------------------------------------------------------------
(* App.tsx: the small handlers *)

\* handleImageUpload: outcome "ok" is fileToBase64 resolving; with no file
\* chosen, or fileToBase64 rejecting, nothing is set.
handleImageUpload(outcome) ==
    /\ Suspended
    /\ referenceImg' = IF outcome = "ok" THEN RefImage ELSE referenceImg
    /\ effect' = NoEffect
    /\ UNCHANGED <<apiKey, selectedAngles, isProcessing, generatedItems,
                   progress, pc, run, calls, fnArgs, fnResult>>

\* The angle buttons pressed in this exploration.
AngleButtons == { "Standard (45)", "Low Angle (30)" }

Includes(arr, v) == \E k \in DOMAIN arr : arr[k] = v

RECURSIVE Filter(_, _)
Filter(arr, v) ==
    IF arr = <<>> THEN <<>>
    ELSE IF Head(arr) = v THEN Filter(Tail(arr), v)
    ELSE << Head(arr) >> \o Filter(Tail(arr), v)

toggleAngle(angle) ==
    /\ Suspended
    /\ selectedAngles' = IF Includes(selectedAngles, angle)
                         THEN Filter(selectedAngles, angle)
                         ELSE Append(selectedAngles, angle)
    /\ effect' = NoEffect
    /\ UNCHANGED <<apiKey, referenceImg, isProcessing, generatedItems,
                   progress, pc, run, calls, fnArgs, fnResult>>

-----------------------------------------------------------------------------
(* App.tsx: generateDataset *)

\* The button disabled for want of an image or an angle only.
GenerateDisabledNotByRun ==
    referenceImg = Null \/ referenceImg = "" \/ Len(selectedAngles) = 0

\* <button onClick={generateDataset} disabled={...}>
GenerateDisabled ==
    isProcessing \/ referenceImg = Null \/ referenceImg = ""
        \/ Len(selectedAngles) = 0

\* Preconditions without the credential test.
PreconditionsNoKey ==
    /\ ~(referenceImg = Null \/ referenceImg = "")
    /\ ~(Len(selectedAngles) = 0)

\* The two early returns: true when the run goes on.
Preconditions ==
    /\ ~(referenceImg = Null \/ referenceImg = "" \/ apiKey = "")
    /\ ~(Len(selectedAngles) = 0)

\* The values config can hold when the button is pressed: the controls'
\* onChange handlers store what the user picked.
\* Batch sizes and environment settings with the size 640 x 480.
Batches ==
    { [InitialConfig EXCEPT !.count = c, !.height = 480] : c \in 1 .. MaxCount }

\* One batch size; every axis "Random", or one axis set to the last value of
\* its <select>.
Last(arr) == arr[Len(arr)]

Environments ==
    LET base == [InitialConfig EXCEPT !.count = 1, !.height = 480]
    IN  { base,
          [base EXCEPT !.lighting = Last(LightingCondition)],
          [base EXCEPT !.background = Last(BackgroundType)],
          [base EXCEPT !.altitude = Last(ALTITUDE_OPTIONS)],
          [base EXCEPT !.weather = Last(WeatherCondition)] }

\* Lines 55-67: the click, up to the loop.
generateDataset(config) ==
    /\ Suspended
    /\ ~GenerateDisabled
    /\ IF ~Preconditions
       THEN /\ effect' = Return("generateDataset")
            /\ UNCHANGED <<isProcessing, generatedItems, progress, pc, run, calls>>
       ELSE /\ effect' = Started("generateDataset")
            /\ isProcessing' = TRUE
            /\ generatedItems' = <<>>
            /\ progress' = Some([current |-> 0, total |-> config.count])
            /\ run' = [ NoRun EXCEPT
                          !.config = config,
                          !.referenceImg = referenceImg,
                          !.selectedAngles = selectedAngles,
                          !.aspectRatio =
                              getGeminiAspectRatio(config.width, config.height) ]
            /\ calls' = <<>>
            /\ pc' = "loop"
    /\ UNCHANGED <<apiKey, referenceImg, selectedAngles, fnArgs, fnResult>>

\* The configured value passed on as it is.
ResolveConfigured(configured, values, k) == configured

\* config.x === 'Random' ? sample(values) : config.x
Resolve(configured, values, k) ==
    IF configured = "Random" THEN sample(values, k) ELSE configured

\* Lines 93-100
ItemConfig(config, selected, rnd) ==
    [ config EXCEPT
        !.lighting = Resolve(config.lighting, LightingCondition, rnd[1]),
        !.background = Resolve(config.background, BackgroundType, rnd[2]),
        !.altitude = Resolve(config.altitude, ALTITUDE_OPTIONS, rnd[3]),
        !.weather = Resolve(config.weather, WeatherCondition, rnd[4]),
        !.angle = sample(selected, rnd[5]) ]

\* Lines 102-113
NewItem(id, itemConfig) ==
    [ id |-> id,
      imageUrl |-> EmptyUrl,
      status |-> "generating",
      bbox |-> Undefined,
      error |-> Undefined,
      metadata |-> [ lighting |-> itemConfig.lighting,
                     background |-> itemConfig.background,
                     altitude |-> itemConfig.altitude,
                     angle |-> itemConfig.angle,
                     weather |-> itemConfig.weather ] ]

\* prev.map(item => item.id === id ? patch(item) : item)
MapItems(prev, id, Patch(_)) ==
    [ k \in DOMAIN prev |-> IF prev[k].id = id THEN Patch(prev[k]) ELSE prev[k] ]

\* The status set to 'detecting', the image left out.
SetDetectingStatusOnly(prev, id, resizedImage) ==
    [ k \in DOMAIN prev |->
        IF prev[k].id = id THEN [prev[k] EXCEPT !.status = "detecting"] ELSE prev[k] ]

\* Lines 126-128
SetDetecting(prev, id, resizedImage) ==
    LET Patch(item) == [item EXCEPT !.imageUrl = resizedImage, !.status = "detecting"]
    IN  MapItems(prev, id, Patch)

\* The updated item alone, the others dropped.
SetCompletedOnly(prev, id, yoloBBox) ==
    LET Match(item) == item.id = id
    IN  [ k \in DOMAIN SelectSeq(prev, Match) |->
            [SelectSeq(prev, Match)[k] EXCEPT !.bbox = Some(yoloBBox),
                                              !.status = "completed"] ]

\* Lines 135-137
SetCompleted(prev, id, yoloBBox) ==
    LET Patch(item) == [item EXCEPT !.bbox = Some(yoloBBox), !.status = "completed"]
    IN  MapItems(prev, id, Patch)

\* SetFailed without the id test: every item is marked failed.
SetFailedAll(prev, id, message) ==
    [ k \in DOMAIN prev |-> [prev[k] EXCEPT !.status = "failed", !.error = Some(message)] ]

\* SetFailed recording the error but leaving the status as it was.
SetFailedKeepsStatus(prev, id, message) ==
    [ k \in DOMAIN prev |->
        IF prev[k].id = id THEN [prev[k] EXCEPT !.error = Some(message)] ELSE prev[k] ]

\* Lines 141-143
SetFailed(prev, id, message) ==
    LET Patch(item) == [item EXCEPT !.status = "failed", !.error = Some(message)]
    IN  MapItems(prev, id, Patch)

\* calls: one entry per call of the service layer, with the item it is for,
\* the GenerationConfig passed (generateDroneView only), and how it settled.
Call(fn, i, config) ==
    [ fn |-> fn, i |-> i, config |-> config, result |-> "pending" ]

Settle(log, r) ==
    [ log EXCEPT ![Len(log)].result = IF r.ok THEN "ok" ELSE "throw" ]

\* No catch block: the error leaves generateDataset, which ends there.
CatchRethrows(prev, id, message) ==
    [ generatedItems |-> prev, pc |-> "idle" ]

\* Lines 139-144: the catch block; the loop goes on at line 146.
Catch(prev, id, message) ==
    [ generatedItems |-> SetFailed(prev, id, message), pc |-> "progress" ]

\* Date.now() does not go back: not below the time in the last item's id.
Clock == { t \in 1 .. MaxTick :
             generatedItems = <<>> \/ t >= generatedItems[Len(generatedItems)].id.t }

\* Line 69 with i < count: lines 70-120, up to the await.
LoopBody(t, rnd) ==
    /\ pc = "loop"
    /\ run.i < run.config.count
    /\ LET id == [t |-> t, i |-> run.i]
           itemConfig == ItemConfig(run.config, run.selectedAngles, rnd)
       IN  /\ generatedItems' = Append(generatedItems, NewItem(id, itemConfig))
           /\ run' = [run EXCEPT !.id = id, !.itemConfig = itemConfig]
           /\ calls' = Append(calls, Call("generateDroneView", run.i,
                                            Some(itemConfig)))
    /\ pc' = "generateDroneView"
    /\ effect' = NoEffect
    /\ UNCHANGED <<apiKey, referenceImg, selectedAngles, isProcessing, progress,
                   fnArgs, fnResult>>

\* Line 69 with i >= count: line 149, the run ends.  run keeps what the
\* finished run was started with; its locals are gone.
LoopExit ==
    /\ pc = "loop"
    /\ ~(run.i < run.config.count)
    /\ isProcessing' = FALSE
    /\ run' = [ NoRun EXCEPT !.config = run.config,
                             !.selectedAngles = run.selectedAngles ]
    /\ pc' = "idle"
    /\ effect' = NoEffect
    /\ UNCHANGED <<apiKey, referenceImg, selectedAngles, generatedItems, progress,
                   calls, fnArgs, fnResult>>

\* Line 120 settles: on to resizeImage (line 123), or to the catch (139-144).
GenerateDroneViewReturn(resp) ==
    /\ pc = "generateDroneView"
    /\ LET r == generateDroneView(apiKey, resp)
       IN  /\ IF r.ok
              THEN /\ run' = [run EXCEPT !.rawDroneImage = r.value[1]]
                   /\ pc' = "resizeImage"
                   /\ UNCHANGED generatedItems
              ELSE /\ generatedItems' = Catch(generatedItems, run.id, r.message).generatedItems
                   /\ pc' = Catch(generatedItems, run.id, r.message).pc
                   /\ UNCHANGED run
           /\ calls' = Settle(calls, r)
    /\ effect' = NoEffect
    /\ UNCHANGED <<apiKey, referenceImg, selectedAngles, isProcessing, progress,
                   fnArgs, fnResult>>

\* Line 123 settles (img.onload fired), then lines 126-131 up to the await.
\* There is no step for an image that does not decode: onload never fires
\* and the promise stays pending.
ResizeImageReturn(ctx) ==
    /\ pc = "resizeImage"
    /\ run.rawDroneImage.decodable
    /\ LET resizedImage == resizeImage(run.rawDroneImage, run.config.width,
                                       run.config.height, ctx)
       IN  /\ generatedItems' = SetDetecting(generatedItems, run.id, resizedImage)
           /\ run' = [run EXCEPT !.resizedImage = resizedImage]
           /\ calls' = Append(calls, Call("detectObjectBBox", run.i, Undefined))
    /\ pc' = "detectObjectBBox"
    /\ effect' = NoEffect
    /\ UNCHANGED <<apiKey, referenceImg, selectedAngles, isProcessing, progress,
                   fnArgs, fnResult>>

\* Line 131 settles: lines 132-137, or the catch (139-144).
DetectObjectBBoxReturn(resp) ==
    /\ pc = "detectObjectBBox"
    /\ LET r == detectObjectBBox(apiKey, resp)
       IN  /\ IF r.ok
              THEN /\ generatedItems' =
                          SetCompleted(generatedItems, run.id,
                                       convertGeminiBoxToYolo(r.value[1],
                                                              run.config.width,
                                                              run.config.height))
                   /\ pc' = "progress"
              ELSE /\ generatedItems' = Catch(generatedItems, run.id, r.message).generatedItems
                   /\ pc' = Catch(generatedItems, run.id, r.message).pc
           /\ calls' = Settle(calls, r)
    /\ effect' = NoEffect
    /\ UNCHANGED <<apiKey, referenceImg, selectedAngles, isProcessing, progress,
                   run, fnArgs, fnResult>>

\* The progress written with the index of the item, not the number done.
NextProgressStale(i, config) == [current |-> i, total |-> config.count]

\* Line 146: { current: i + 1, total: config.count }
NextProgress(i, config) == [current |-> i + 1, total |-> config.count]

\* Line 146, and i++
SetProgress ==
    /\ pc = "progress"
    /\ progress' = Some(NextProgress(run.i, run.config))
    /\ run' = [run EXCEPT !.i = run.i + 1, !.rawDroneImage = EmptyUrl,
                          !.resizedImage = EmptyUrl]
    /\ pc' = "loop"
    /\ effect' = NoEffect
    /\ UNCHANGED <<apiKey, referenceImg, selectedAngles, isProcessing,
                   generatedItems, calls, fnArgs, fnResult>>

-----------------------------------------------------------------------------
(* App.tsx: handleDownloadZip *)

\* <button onClick={handleDownloadZip} disabled={...}>
DownloadDisabled ==
    ~ \E k \in DOMAIN generatedItems : generatedItems[k].status = "completed"

\* The filter taking every item that has an image.
IsExportedWithImage(item) == item.imageUrl # EmptyUrl

\* Line 154
IsExported(item) == item.status = "completed" /\ item.bbox # Undefined

CompletedItems(items) == SelectSeq(items, IsExported)

ClassIds == {0, 2}

\* Lines 158-182: the files put in the archive
ZipFiles(completedItems, classId) ==
    [ yaml   |-> [nc |-> classId + 1, id |-> classId],
      images |-> { [ name |-> completedItems[k].id, data |-> completedItems[k].imageUrl ]
                     : k \in DOMAIN completedItems },
      labels |-> { [ name |-> completedItems[k].id,
                     line |-> formatYoloLine(classId, completedItems[k].bbox[1]) ]
                     : k \in { j \in DOMAIN completedItems :
                                 completedItems[j].bbox # Undefined } } ]

handleDownloadZip(classId) ==
    /\ Suspended
    /\ ~DownloadDisabled
    /\ LET completedItems == CompletedItems(generatedItems)
       IN  IF Len(completedItems) = 0
           THEN effect' = Return("handleDownloadZip")
           ELSE effect' = SaveAs("handleDownloadZip", ZipFiles(completedItems, classId))
    /\ UNCHANGED <<apiKey, referenceImg, selectedAngles, isProcessing,
                   generatedItems, progress, pc, run, calls, fnArgs, fnResult>>

-----------------------------------------------------------------------------
(* The program *)

Step(configs, randoms) ==
    \/ \E outcome \in {"ok", "nofile", "error"} : handleImageUpload(outcome)
    \/ \E angle \in AngleButtons : toggleAngle(angle)
    \/ \E config \in configs : generateDataset(config)
    \/ \E t \in Clock, rnd \in [1 .. 5 -> randoms] : LoopBody(t, rnd)
    \/ LoopExit
    \/ \E resp \in SynthResponses : GenerateDroneViewReturn(resp)
    \/ \E ctx \in BOOLEAN : ResizeImageReturn(ctx)
    \/ \E resp \in DetectResponses : DetectObjectBBoxReturn(resp)
    \/ SetProgress
    \/ \E classId \in ClassIds : handleDownloadZip(classId)

\* Runs of every batch size, Math.random() returning 0.
Next == Step(Batches, {0})

Spec == Init /\ [][Next]_vars

\* Runs of one item over the environment settings, Math.random() ranging
\* over Randoms.
ParamNext == Step(Environments, Randoms)

ParamSpec == Init /\ [][ParamNext]_vars

\* The continuation of a suspended run is scheduled once the awaited
\* promise settles, and the service calls settle; a promise that stays
\* pending (no step enabled) keeps the run suspended.
RunStep ==
    \/ \E t \in Clock : LoopBody(t, [k \in 1 .. 5 |-> 0])
    \/ LoopExit
    \/ \E resp \in SynthResponses : GenerateDroneViewReturn(resp)
    \/ \E ctx \in BOOLEAN : ResizeImageReturn(ctx)
    \/ \E resp \in DetectResponses : DetectObjectBBoxReturn(resp)
    \/ SetProgress

FairSpec == Spec /\ WF_vars(RunStep)

-----------------------------------------------------------------------------
(* convertGeminiBoxToYolo on its own: every box over a grid of field values *)

\* Quarters from -1/4 to MaxQuarter/4, and values of the 0-1000 scale.
BoxFields ==
    { Quarter(q) : q \in -1 .. MaxQuarter } \cup { Num(2), Num(500), Num(1000) }

ImageSizes == { <<640, 640>>, <<640, 480>>, <<1080, 1920>> }

BoxArgs ==
    { [ymin |-> a, xmin |-> b, ymax |-> c, xmax |-> d, w |-> sz[1], h |-> sz[2]]
        : a \in BoxFields, b \in BoxFields, c \in BoxFields, d \in BoxFields,
          sz \in ImageSizes }

Box2D(args) ==
    [ymin |-> args.ymin, xmin |-> args.xmin, ymax |-> args.ymax, xmax |-> args.xmax]

BoxInit ==
    /\ apiKey = "KEY"
    /\ referenceImg = Null
    /\ selectedAngles = << "Standard (45)" >>
    /\ isProcessing = FALSE
    /\ generatedItems = <<>>
    /\ progress = Undefined
    /\ pc = "idle"
    /\ run = NoRun
    /\ calls = <<>>
    /\ effect = NoEffect
    /\ fnArgs \in BoxArgs
    /\ fnResult = Undefined

ConvertBox ==
    /\ fnResult = Undefined
    /\ fnResult' = Some([ locals |-> BoxLocals(Box2D(fnArgs)),
                          ret |-> convertGeminiBoxToYolo(Box2D(fnArgs), fnArgs.w,
                                                         fnArgs.h) ])
    /\ UNCHANGED <<appVars, fnArgs>>

BoxSpec == BoxInit /\ [][ConvertBox]_vars

-----------------------------------------------------------------------------
(* getGeminiAspectRatio on its own: every width and height of a grid *)

\* Multiples of 100 pixels, and the sizes of common image formats.
Dims == { 100 * k : k \in 1 .. MaxDim } \cup { 480, 640, 1080, 1920 }

AspectArgs == { [NoArgs EXCEPT !.w = width, !.h = height] : width \in Dims, height \in Dims }

AspectInit ==
    /\ apiKey = "KEY"
    /\ referenceImg = Null
    /\ selectedAngles = << "Standard (45)" >>
    /\ isProcessing = FALSE
    /\ generatedItems = <<>>
    /\ progress = Undefined
    /\ pc = "idle"
    /\ run = NoRun
    /\ calls = <<>>
    /\ effect = NoEffect
    /\ fnArgs \in AspectArgs
    /\ fnResult = Undefined

ResolveAspect ==
    /\ fnResult = Undefined
    /\ fnResult' = Some([ ret |-> getGeminiAspectRatio(fnArgs.w, fnArgs.h) ])
    /\ UNCHANGED <<appVars, fnArgs>>

AspectSpec == AspectInit /\ [][ResolveAspect]_vars

-----------------------------------------------------------------------------
(* formatYoloLine on its own: class ids and boxes with fields in [0, 1] *)

\* 0, 0.000125, 0.001, 0.125, 0.25, 0.5, 0.75 and 1
UnitValues ==
    { 0, 1, Den \div 1000, Den \div 8, Quarter(1), Quarter(2), Quarter(3), Num(1) }

\* setClassId(Math.max(0, parseInt(e.target.value) || 0))
FormatClassIds == { 0, 2, 10 }

FormatArgs ==
    { [ classId |-> c, x_center |-> x, y_center |-> y, width |-> w, height |-> h ]
        : c \in FormatClassIds, x \in UnitValues, y \in UnitValues,
          w \in UnitValues, h \in UnitValues }

BoundingBox(args) ==
    [ x_center |-> args.x_center, y_center |-> args.y_center,
      width |-> args.width, height |-> args.height ]

FormatInit ==
    /\ apiKey = "KEY"
    /\ referenceImg = Null
    /\ selectedAngles = << "Standard (45)" >>
    /\ isProcessing = FALSE
    /\ generatedItems = <<>>
    /\ progress = Undefined
    /\ pc = "idle"
    /\ run = NoRun
    /\ calls = <<>>
    /\ effect = NoEffect
    /\ fnArgs \in FormatArgs
    /\ fnResult = Undefined

FormatLine ==
    /\ fnResult = Undefined
    /\ fnResult' = Some([ ret |-> formatYoloLine(fnArgs.classId, BoundingBox(fnArgs)) ])
    /\ UNCHANGED <<appVars, fnArgs>>

FormatSpec == FormatInit /\ [][FormatLine]_vars

-----------------------------------------------------------------------------
(* Properties *)

Terminal(item) == item.status \in {"completed", "failed"}

NumTerminal ==
    Cardinality({ k \in DOMAIN generatedItems : Terminal(generatedItems[k]) })

StatusEdges ==
    { <<"generating", "detecting">>, <<"detecting", "completed">>,
      <<"generating", "failed">>, <<"detecting", "failed">> }

\* C1: in every step, an item that stays in the collection keeps its status
\* or moves along one of the four edges generating -> detecting,
\* detecting -> completed, generating -> failed, detecting -> failed (so a
\* completed or failed item never changes again); an item that enters the
\* collection enters it as 'generating'; no item is ever 'pending'.
C1_StatusEdges ==
    [][ \A k \in DOMAIN generatedItems' :
          /\ generatedItems'[k].status # "pending"
          /\ IF k \in DOMAIN generatedItems
                  /\ generatedItems[k].id = generatedItems'[k].id
             THEN \/ generatedItems[k].status = generatedItems'[k].status
                  \/ <<generatedItems[k].status, generatedItems'[k].status>>
                        \in StatusEdges
             ELSE generatedItems'[k].status = "generating" ]_vars

\* A run in which one item completed and a later one failed in detection.
C1_Witness ==
    /\ Len(generatedItems) = 2
    /\ generatedItems[1].status = "completed"
    /\ generatedItems[2].status = "failed"
    /\ generatedItems[2].imageUrl # EmptyUrl

\* C2: at most one item is 'generating' or 'detecting', and it is the last
\* one; while a synthesis call is pending, every earlier item is terminal.
C2_Sequential ==
    /\ \A k \in DOMAIN generatedItems :
          ~Terminal(generatedItems[k]) => k = Len(generatedItems)
    /\ \A c \in DOMAIN calls :
          (calls[c].fn = "generateDroneView" /\ calls[c].result = "pending")
            => /\ Len(generatedItems) = calls[c].i + 1
               /\ \A k \in 1 .. calls[c].i : Terminal(generatedItems[k])

\* The second item's synthesis is pending after the first item failed.
C2_Witness ==
    /\ pc = "generateDroneView"
    /\ Len(generatedItems) = 2
    /\ generatedItems[1].status = "failed"
    /\ generatedItems[2].status = "generating"

RunEnded == pc = "idle" /\ progress # Undefined

\* C3: when a run of count n has ended, the collection holds exactly n
\* items, item k is 'failed' exactly when the synthesis or the detection
\* call made for it threw, a failed item carries a non-empty error, every
\* other item is 'completed', and progress is {n, n}.
C3_FailureDoesNotAbort ==
    RunEnded =>
      LET n == run.config.count
      IN  /\ Len(generatedItems) = n
          /\ progress = Some([current |-> n, total |-> n])
          /\ \A k \in DOMAIN generatedItems :
                LET item == generatedItems[k]
                    threw == \E c \in DOMAIN calls :
                                calls[c].i = k - 1 /\ calls[c].result = "throw"
                IN  /\ item.status = "failed" <=> threw
                    /\ item.status = "failed"
                         => item.error # Undefined /\ item.error[1] # ""
                    /\ item.status # "failed" => item.status = "completed"

\* A finished run of two items: the first failed in synthesis, the second
\* completed.
C3_Witness ==
    /\ RunEnded
    /\ Len(generatedItems) = 2
    /\ generatedItems[1].status = "failed"
    /\ generatedItems[1].imageUrl = EmptyUrl
    /\ generatedItems[2].status = "completed"

\* C4: every run that starts eventually ends (isProcessing is false again)
\* with every item of the collection in a terminal status.
C4_RunEnds ==
    isProcessing ~>
        (~isProcessing /\ \A k \in DOMAIN generatedItems : Terminal(generatedItems[k]))

\* C5: a generateDataset call made with no reference image, an empty
\* credential or no selected angle changes neither the collection, the
\* progress, the processing flag nor the position of a run, and makes no
\* service call.
C5_AbortLeavesState ==
    [][ ( /\ effect'.handler = "generateDataset"
          /\ (referenceImg = Null \/ apiKey = "" \/ selectedAngles = <<>>) )
        => /\ effect' = Return("generateDataset")
           /\ UNCHANGED <<generatedItems, progress, isProcessing, calls, pc, run>>
      ]_vars

\* generateDataset has returned early for want of a credential, with a
\* reference image and an angle selected.
C5_Witness ==
    /\ effect = Return("generateDataset")
    /\ apiKey = ""
    /\ referenceImg # Null
    /\ selectedAngles # <<>>
    /\ generatedItems = <<>> /\ progress = Undefined /\ ~isProcessing

\* C6: every item that is 'detecting' or 'completed' carries an image of
\* exactly the run's target width x height.
C6_ImagesResized ==
    \A k \in DOMAIN generatedItems :
        generatedItems[k].status \in {"detecting", "completed"}
          => /\ generatedItems[k].imageUrl.w = run.config.width
             /\ generatedItems[k].imageUrl.h = run.config.height

\* C7: progress is {0, count} when a run starts; in every state of a run
\* 0 <= current <= total = count; current equals the number of terminal
\* items whenever the run is suspended on a call or has ended; and within a
\* run current never decreases.
C7_Progress ==
    [][ /\ progress' # Undefined =>
              /\ 0 <= progress'[1].current
              /\ progress'[1].current <= progress'[1].total
              /\ progress'[1].total = run'.config.count
        /\ effect'.kind = "started" =>
              progress' = Some([current |-> 0, total |-> run'.config.count])
        /\ (Suspended' /\ progress' # Undefined) =>
              progress'[1].current = NumTerminal'
        /\ (progress # Undefined /\ progress' # Undefined /\ effect'.kind # "started") =>
              progress'[1].current >= progress[1].current
      ]_vars

\* The second item's synthesis is pending; the first item failed and was
\* counted.
C7_Witness ==
    /\ pc = "generateDroneView"
    /\ Len(generatedItems) = 2
    /\ generatedItems[1].status = "failed"
    /\ progress = Some([current |-> 1, total |-> 2])

Qualifies(item) == item.status = "completed" /\ item.bbox # Undefined

\* C8: the archive handed to saveAs holds exactly one image file and one
\* label file for every item that is 'completed' with a box, and no file
\* for any other item; handleDownloadZip with no such item saves nothing.
C8_ExportExact ==
    /\ effect.kind = "saveAs" =>
          LET files == effect.files[1]
          IN  /\ \E k \in DOMAIN generatedItems : Qualifies(generatedItems[k])
              /\ \A k \in DOMAIN generatedItems :
                    LET item == generatedItems[k]
                        n == IF Qualifies(item) THEN 1 ELSE 0
                    IN  /\ Cardinality({ f \in files.images : f.name = item.id }) = n
                        /\ Cardinality({ f \in files.labels : f.name = item.id }) = n
              /\ \A f \in files.images :
                    \E k \in DOMAIN generatedItems : generatedItems[k].id = f.name
              /\ \A f \in files.labels :
                    \E k \in DOMAIN generatedItems : generatedItems[k].id = f.name
    /\ ( /\ effect.handler = "handleDownloadZip"
         /\ ~ \E k \in DOMAIN generatedItems : Qualifies(generatedItems[k]) )
          => effect = Return("handleDownloadZip")

\* An export in the middle of a run: one item completed, the next one still
\* 'detecting' with its image attached.
C8_Witness ==
    /\ effect.kind = "saveAs"
    /\ Len(generatedItems) = 2
    /\ generatedItems[1].status = "completed"
    /\ generatedItems[2].status = "detecting"
    /\ Cardinality(effect.files[1].images) = 1

AxisResolved(configured, resolved, values) ==
    /\ resolved # "Random"
    /\ IF configured = "Random" THEN resolved \in Range(values)
                                ELSE resolved = configured

ParametersResolved(config, selected, p) ==
    /\ p.angle \in Range(selected)
    /\ p.angle # "Random"
    /\ AxisResolved(config.lighting, p.lighting, LightingCondition)
    /\ AxisResolved(config.background, p.background, BackgroundType)
    /\ AxisResolved(config.altitude, p.altitude, ALTITUDE_OPTIONS)
    /\ AxisResolved(config.weather, p.weather, WeatherCondition)

\* C9: every item's angle is one of the angles selected when its run
\* started, each of its other axes is the configured value or, when that is
\* "Random", a value of the axis's enumeration, and "Random" appears in no
\* axis of an item's metadata nor of the configuration passed to
\* generateDroneView.
C9_ParametersResolved ==
    /\ \A k \in DOMAIN generatedItems :
          ParametersResolved(run.config, run.selectedAngles,
                             generatedItems[k].metadata)
    /\ \A c \in DOMAIN calls :
          calls[c].fn = "generateDroneView" =>
              ParametersResolved(run.config, run.selectedAngles, calls[c].config[1])

\* An item of a run whose lighting was configured and whose weather was
\* drawn, the draw not being the first value; two angles were selected and
\* the second was drawn.
C9_Witness ==
    /\ Len(generatedItems) = 1
    /\ run.config.lighting = Last(LightingCondition)
    /\ run.config.weather = "Random"
    /\ generatedItems[1].metadata.weather = WeatherCondition[3]
    /\ Len(run.selectedAngles) = 2
    /\ generatedItems[1].metadata.angle = run.selectedAngles[2]

\* C10: the scale is 1000 exactly when ymax > 1, and then all four fields
\* are divided by 1000; otherwise none is.  Before the clamp, width is
\* xmax - xmin, height is ymax - ymin, x_center is xmin + width/2 and
\* y_center is ymin + height/2 on that scale; the result is the clamp of
\* these and is the same for every image width and height.
C10_ScaleFromYmax ==
    fnResult # Undefined =>
      LET box == Box2D(fnArgs)
          l == fnResult[1].locals
          ret == fnResult[1].ret
          scale == IF box.ymax > Num(1) THEN 1000 ELSE 1
      IN  /\ l.ymin * scale = box.ymin
          /\ l.xmin * scale = box.xmin
          /\ l.ymax * scale = box.ymax
          /\ l.xmax * scale = box.xmax
          /\ l.boxWidth = l.xmax - l.xmin
          /\ l.boxHeight = l.ymax - l.ymin
          /\ 2 * l.xCenter = 2 * l.xmin + l.boxWidth
          /\ 2 * l.yCenter = 2 * l.ymin + l.boxHeight
          /\ ret = [ x_center |-> Max(0, Min(Num(1), l.xCenter)),
                     y_center |-> Max(0, Min(Num(1), l.yCenter)),
                     width    |-> Max(0, Min(Num(1), l.boxWidth)),
                     height   |-> Max(0, Min(Num(1), l.boxHeight)) ]
          /\ \A sz \in ImageSizes :
                convertGeminiBoxToYolo(box, sz[1], sz[2]) = ret

\* A box with ymax = 1 and xmax = 500 was converted: no field was divided.
C10_Witness ==
    /\ fnResult # Undefined
    /\ fnArgs.ymax = Num(1)
    /\ fnArgs.xmax = Num(500)
    /\ fnArgs.xmin = Num(2)
    /\ fnResult[1].locals.boxWidth = Num(498)

InUnit(v) == 0 <= v /\ v <= Num(1)

BoxInUnit(b) ==
    InUnit(b.x_center) /\ InUnit(b.y_center) /\ InUnit(b.width) /\ InUnit(b.height)

\* C11: for every input box, negative, out-of-range and inverted ones
\* included, the four fields returned by convertGeminiBoxToYolo lie in
\* [0, 1]; and so do the four fields of the box of every 'completed' item.
C11_Clamped ==
    /\ fnResult # Undefined => BoxInUnit(fnResult[1].ret)
    /\ \A k \in DOMAIN generatedItems :
          generatedItems[k].status = "completed"
            => /\ generatedItems[k].bbox # Undefined
               /\ BoxInUnit(generatedItems[k].bbox[1])

\* An inverted box reaching outside the image on both sides was converted:
\* xmin = 5/4 > xmax = -1/4, so the width before the clamp is -3/2, and
\* ymin = -1/4, ymax = 1, so the height before the clamp is 5/4.
C11_Witness ==
    /\ fnResult # Undefined
    /\ fnArgs.xmin = Quarter(5) /\ fnArgs.xmax = Quarter(0 - 1)
    /\ fnArgs.ymin = Quarter(0 - 1) /\ fnArgs.ymax = Quarter(4)
    /\ fnResult[1].locals.boxWidth = Quarter(0 - 6)
    /\ fnResult[1].locals.boxHeight = Quarter(5)
    /\ fnResult[1].ret.width = 0
    /\ fnResult[1].ret.height = Num(1)

\* A 'completed' item whose detected box was inverted and out of range.
CompletedClampedWitness ==
    \E k \in DOMAIN generatedItems :
        /\ generatedItems[k].status = "completed"
        /\ generatedItems[k].bbox[1].width = Num(1)
        /\ generatedItems[k].bbox[1].height = 0

\* The five ratios as fractions, in enumeration order.
ExactRatios ==
    << [key |-> "1:1",  num |-> 1,  den |-> 1],
       [key |-> "3:4",  num |-> 3,  den |-> 4],
       [key |-> "4:3",  num |-> 4,  den |-> 3],
       [key |-> "9:16", num |-> 9,  den |-> 16],
       [key |-> "16:9", num |-> 16, den |-> 9] >>

\* |a - width/height| < |b - width/height|, cleared of denominators
Closer(a, b, width, height) ==
    Abs(a.num * height - a.den * width) * b.den
        < Abs(b.num * height - b.den * width) * a.den

\* The tag of the first ratio that no other ratio is closer than.
NearestTag(width, height) ==
    LET best == { k \in DOMAIN ExactRatios :
                    \A j \in DOMAIN ExactRatios :
                        ~Closer(ExactRatios[j], ExactRatios[k], width, height) }
        first == CHOOSE k \in best : \A j \in best : k <= j
    IN  ExactRatios[first].key

\* C12: getGeminiAspectRatio(width, height) is the tag whose ratio, among
\* 1, 3/4, 4/3, 9/16 and 16/9, is nearest to width/height, the first of them
\* in enumeration order on a tie; (640,640) gives 1:1, (640,480) gives 4:3
\* and (1080,1920) gives 9:16.
C12_NearestRatio ==
    /\ fnResult # Undefined => fnResult[1].ret = NearestTag(fnArgs.w, fnArgs.h)
    /\ getGeminiAspectRatio(640, 640) = "1:1"
    /\ getGeminiAspectRatio(640, 480) = "4:3"
    /\ getGeminiAspectRatio(1080, 1920) = "9:16"

\* The three named sizes, and every size of the grid other than those with
\* width : height = 7 : 6 (equally far from 1 and from 4/3).
AspectExamples ==
    /\ getGeminiAspectRatio(640, 640) = "1:1"
    /\ getGeminiAspectRatio(640, 480) = "4:3"
    /\ getGeminiAspectRatio(1080, 1920) = "9:16"
    /\ (fnResult # Undefined /\ fnArgs.w * 6 # fnArgs.h * 7)
          => fnResult[1].ret = NearestTag(fnArgs.w, fnArgs.h)

\* The decimal notation, with six decimal places, of the values drawn.
SixDecimals ==
    { <<0, "0.000000">>, <<1, "0.000125">>, <<Den \div 1000, "0.001000">>,
      <<Den \div 8, "0.125000">>, <<Quarter(1), "0.250000">>,
      <<Quarter(2), "0.500000">>, <<Quarter(3), "0.750000">>,
      <<Num(1), "1.000000">> }

Decimal(v) == (CHOOSE p \in SixDecimals : p[1] = v)[2]

ClassIdText(c) == (CHOOSE p \in { <<0, "0">>, <<2, "2">>, <<10, "10">> } : p[1] = c)[2]

\* C13: for every class id and every box with fields in [0, 1],
\* formatYoloLine returns the class id, x_center, y_center, width and height
\* in that order, separated by single spaces, each box field with exactly
\* six decimal places and nothing after the height; for class id 2 and the
\* box {0.5, 0.5, 0.25, 0.5} it returns "2 0.500000 0.500000 0.250000 0.500000".
C13_LineFormat ==
    /\ fnResult # Undefined =>
          /\ fnResult[1].ret =
                ClassIdText(fnArgs.classId) \o " " \o Decimal(fnArgs.x_center)
                  \o " " \o Decimal(fnArgs.y_center) \o " " \o Decimal(fnArgs.width)
                  \o " " \o Decimal(fnArgs.height)
          /\ Len(fnResult[1].ret) = Len(ClassIdText(fnArgs.classId)) + 4 * (1 + 8)
    /\ formatYoloLine(2, [ x_center |-> Quarter(2), y_center |-> Quarter(2),
                           width |-> Quarter(1), height |-> Quarter(2) ])
          = "2 0.500000 0.500000 0.250000 0.500000"

\* A line was formatted for class id 10 and a box whose fields all differ,
\* one of them having leading zeros after the point.
C13_Witness ==
    /\ fnResult # Undefined
    /\ fnArgs.classId = 10
    /\ fnArgs.x_center = 1 /\ fnArgs.y_center = Quarter(3)
    /\ fnArgs.width = Num(1) /\ fnArgs.height = Den \div 8
    /\ fnResult[1].ret = "10 0.000125 0.750000 1.000000 0.125000"

CallsOf(fn, i) == { c \in DOMAIN calls : calls[c].fn = fn /\ calls[c].i = i }

\* The image attached to item k has the size the run was asked for.
Normalized(k) ==
    /\ generatedItems[k].imageUrl.w = run.config.width
    /\ generatedItems[k].imageUrl.h = run.config.height

\* One synthesis call per item, at most one detection call, and a detection
\* call only after the item's synthesis call returned an image.
StepOrder ==
    /\ \A c \in DOMAIN calls : calls[c].i + 1 \in DOMAIN generatedItems
    /\ \A k \in DOMAIN generatedItems :
          /\ Cardinality(CallsOf("generateDroneView", k - 1)) = 1
          /\ Cardinality(CallsOf("detectObjectBBox", k - 1)) <= 1
          /\ \A d \in CallsOf("detectObjectBBox", k - 1) :
                \E g \in CallsOf("generateDroneView", k - 1) :
                    g < d /\ calls[g].result = "ok"

\* C14: for every item of a run the synthesis call is made exactly once and
\* the detection call at most once; a detection call is made only after the
\* item's synthesis succeeded and its image was normalized, never for an
\* item whose synthesis or normalization failed.
C14_NoRetryFixedOrder ==
    /\ StepOrder
    /\ \A k \in DOMAIN generatedItems :
          \A d \in CallsOf("detectObjectBBox", k - 1) : Normalized(k)

\* The second item's detection call is pending after the first item's
\* synthesis failed: three calls were made in all.
StepOrderWitness ==
    /\ pc = "detectObjectBBox"
    /\ Len(generatedItems) = 2
    /\ generatedItems[1].status = "failed"
    /\ Len(calls) = 3
    /\ calls[1].result = "throw"
    /\ calls[3].fn = "detectObjectBBox"

\* C15: a generateDataset run starts only when none is in progress, so a
\* run is in progress exactly while isProcessing is true; every step that
\* writes the collection or the progress while a run is in progress is a
\* step of that run, whose configuration, angles and reference image stay
\* the ones it started with; and the items in the collection are the items
\* 0, 1, ... of that one run, within its count.
C15_SingleRun ==
    [][ /\ effect'.kind = "started" => (~isProcessing /\ pc = "idle")
        /\ isProcessing' <=> pc' # "idle"
        /\ (isProcessing /\ isProcessing') =>
              /\ run'.config = run.config
              /\ run'.selectedAngles = run.selectedAngles
              /\ run'.referenceImg = run.referenceImg
              /\ Len(generatedItems') >= Len(generatedItems)
        /\ (generatedItems' # generatedItems \/ progress' # progress) =>
              \/ effect'.kind = "started"
              \/ isProcessing /\ isProcessing' /\ ~Suspended
              \/ isProcessing /\ isProcessing' /\ calls' # calls
        /\ \A k \in DOMAIN generatedItems' :
              /\ generatedItems'[k].id.i = k - 1
              /\ k <= run'.config.count
        /\ progress' # Undefined => progress'[1].total = run'.config.count
      ]_vars

\* A run of two items is suspended on the second item's detection call
\* while a reference image is loaded and an angle is selected: only the
\* running flag keeps the button disabled.
C15_Witness ==
    /\ isProcessing
    /\ pc = "detectObjectBBox"
    /\ Len(generatedItems) = 2
    /\ referenceImg # Null
    /\ Len(selectedAngles) > 0
    /\ apiKey # ""
    /\ GenerateDisabled

Ids(items) == { items[k].id : k \in DOMAIN items }

\* C16: in every step of a run, the start of a run apart (it clears the
\* collection), the collection stays as it is, or gets one new item
\* appended at its end, or has the one item with the run's current id
\* updated in place, every other item, and that item's id and metadata,
\* staying as they were; and item ids are pairwise distinct.
C16_Frame ==
    [][ /\ Cardinality(Ids(generatedItems')) = Len(generatedItems')
        /\ effect'.kind # "started" =>
              \/ generatedItems' = generatedItems
              \/ /\ Len(generatedItems') = Len(generatedItems) + 1
                 /\ SubSeq(generatedItems', 1, Len(generatedItems)) = generatedItems
                 /\ generatedItems'[Len(generatedItems')].id \notin Ids(generatedItems)
              \/ /\ Len(generatedItems') = Len(generatedItems)
                 /\ \E k \in DOMAIN generatedItems :
                       /\ generatedItems[k].id = run.id
                       /\ generatedItems'[k].id = generatedItems[k].id
                       /\ generatedItems'[k].metadata = generatedItems[k].metadata
                       /\ \A j \in DOMAIN generatedItems :
                             j # k => generatedItems'[j] = generatedItems[j]
      ]_vars

\* Two items created within the same millisecond, the first one failed and
\* the second one updated to 'completed' after it.
C16_Witness ==
    /\ Len(generatedItems) = 2
    /\ generatedItems[1].id.t = generatedItems[2].id.t
    /\ generatedItems[1].id # generatedItems[2].id
    /\ generatedItems[1].status = "failed"
    /\ generatedItems[1].bbox = Undefined
    /\ generatedItems[2].status = "completed"

\* The detection call made for item k threw.
FailedInDetection(k) ==
    \E d \in CallsOf("detectObjectBBox", k - 1) : calls[d].result = "throw"

\* C17: a 'generating' item has an empty image, no box and no error; a
\* 'detecting' item has an image, no box and no error; a 'completed' item
\* has an image and a box and no error; a 'failed' item has an error and no
\* box, and has an image exactly when it failed in the detection step.
C17_PayloadMatchesStatus ==
    \A k \in DOMAIN generatedItems :
        LET item == generatedItems[k]
        IN  /\ item.status \in {"generating", "detecting", "completed", "failed"}
            /\ item.status = "generating" =>
                  item.imageUrl = EmptyUrl /\ item.bbox = Undefined
                      /\ item.error = Undefined
            /\ item.status = "detecting" =>
                  item.imageUrl # EmptyUrl /\ item.bbox = Undefined
                      /\ item.error = Undefined
            /\ item.status = "completed" =>
                  item.imageUrl # EmptyUrl /\ item.bbox # Undefined
                      /\ item.error = Undefined
            /\ item.status = "failed" =>
                  /\ item.error # Undefined
                  /\ item.bbox = Undefined
                  /\ item.imageUrl # EmptyUrl <=> FailedInDetection(k)

\* A finished run whose first item failed in detection, keeping its image,
\* and whose second item failed in synthesis, with none.
C17_Witness ==
    /\ RunEnded
    /\ Len(generatedItems) = 2
    /\ generatedItems[1].status = "failed"
    /\ generatedItems[1].imageUrl # EmptyUrl
    /\ generatedItems[1].error = Some(NoTextResponse)
    /\ generatedItems[2].status = "failed"
    /\ generatedItems[2].imageUrl = EmptyUrl
    /\ generatedItems[2].error = Some(NoImageData)

====
